---- MODULE Spec2Model ----
(***************************************************************************)
(* Model of src/hotspot/share/runtime/stackWatermark.cpp: the per-thread   *)
(* stack watermark (StackWatermark) and its frame cursor                   *)
(* (StackWatermarkIterator).                                               *)
(*                                                                         *)
(* Granularity.  A step of a thread that holds _lock is split exactly      *)
(* where something outside the lock can see or change what it uses: at     *)
(* each release_store of _watermark and _state, and at each read of the    *)
(* global epoch_id().  Everything else done under the lock (deleting and   *)
(* building the iterator, walking frames) touches only lock-protected      *)
(* data and is one step.  epoch_id() is advanced by the collector, outside *)
(* this file, and the model lets it advance between any two steps.         *)
(***************************************************************************)
EXTENDS Integers, Sequences, FiniteSets, TLC

\* Bounds of the model.
MaxSmall == 3      \* every barrier placement is tried on stacks this deep
MaxFrames == 9     \* periodic stacks are tried at this depth and one frame less
MaxStride == 2     \* periodic stacks: a barrier frame every 1..MaxStride frames
MaxEpoch == 2      \* the global epoch advances at most this often

\* Program constant (process_all).
frames_per_poll_gc == 5

Threads == {"t1", "t2"}
NoOwner == "none"

VARIABLES
  epoch_id,    \* the global epoch, epoch_id()
  state,       \* _state: [epoch, is_done]
  watermark,   \* _watermark
  iterator,    \* _iterator: <<>> is NULL, <<c>> a live StackWatermarkIterator c
  lock,        \* owner of _lock, or NoOwner
  stack,       \* the thread's frames: [n, barrier]
  pc,          \* per calling thread: where it is in the operation it runs
  ctx,         \* per calling thread: the call site update_watermark returns to
  ld,          \* per calling thread: the epoch of the _state it loaded
  dang,        \* per calling thread: <<c>> when its process_all runs on a deleted
               \* iterator whose memory still holds c, <<>> otherwise
  res,         \* per calling thread: what the operation it ran returned
  alive,       \* FALSE once a read of freed memory has trapped
  processed,   \* frames passed to process() since the iterator was built
  born,        \* the epoch_id() at which the current iteration was started
  implRuns     \* per epoch: runs of start_iteration_impl decided at that epoch

vars == <<epoch_id, state, watermark, iterator, lock, stack, pc, ctx, ld, dang,
          res, alive, processed, born, implRuns>>

----------------------------------------------------------------------------
\* The thread's stack.  Frame 1 is the top of the stack; the walk goes towards
\* the bottom, stack addresses increasing.

Periodic(n, k) == [n |-> n, barrier |-> {p \in 1..n : p % k = 0}]

Scenario == [n |-> 10, barrier |-> {3, 8}]

Stacks ==
  UNION {{[n |-> n, barrier |-> b] : b \in SUBSET (1..n)} : n \in 0..MaxSmall}
  \cup {Periodic(n, k) : n \in (MaxFrames - 1)..MaxFrames, k \in 1..MaxStride}
  \cup {Scenario}

Sp(p) == 16 * p

HasBarrier(p) == p \in stack.barrier

HasLastJavaFrame == stack.n > 0

----------------------------------------------------------------------------
\* StackWatermarkState

Create(epoch, is_done) == [epoch |-> epoch, is_done |-> is_done]

----------------------------------------------------------------------------
\* StackWatermarkIterator: [pos, caller, callee]; pos is the frame the stream
\* stands on, _is_done is pos > stack.n.

NewIterator == [pos |-> 1, caller |-> 0, callee |-> 0]

HasNext(c) == c.pos <= stack.n

\* Mutant of SetWatermark: the third branch does not move _caller to _callee.
SetWatermark_NoShift(c, sp) ==
  IF ~HasNext(c) THEN c
  ELSE IF c.callee = 0 THEN [c EXCEPT !.callee = sp]
  ELSE [c EXCEPT !.caller = sp]

SetWatermark(c, sp) ==
  IF ~HasNext(c) THEN c
  ELSE IF c.callee = 0 THEN [c EXCEPT !.callee = sp]
  ELSE IF c.caller = 0 THEN [c EXCEPT !.caller = sp]
  ELSE [c EXCEPT !.callee = c.caller, !.caller = sp]

\* Mutant of LoopEnd: the loop of process_one stops after one frame.
LoopEnd_OneFrame(p) == p

\* The last frame the loop of process_one processes when it starts on frame p:
\* the first barrier frame from p on, or the last frame of the stack.
RECURSIVE LoopEnd(_)
LoopEnd(p) == IF HasBarrier(p) \/ p >= stack.n THEN p ELSE LoopEnd(p + 1)

\* Mutant of ItProcessOne: the loop breaks on a barrier frame before next().
ItProcessOne_BreakBeforeNext(c) ==
  IF ~HasNext(c) THEN SetWatermark(c, 0)
  ELSE IF HasBarrier(c.pos) THEN SetWatermark(c, Sp(c.pos))
  ELSE LET last == LoopEnd(c.pos)
       IN SetWatermark([c EXCEPT !.pos = last + 1], Sp(last))

ItProcessOne(c) ==
  IF ~HasNext(c) THEN SetWatermark(c, 0)
  ELSE LET last == LoopEnd(c.pos)
       IN SetWatermark([c EXCEPT !.pos = last + 1], Sp(last))

\* process_all from its loop head with counter k, up to its next yield or its end.
RECURSIVE ProcessAll(_, _)
ProcessAll(c, k) ==
  IF ~HasNext(c) THEN [it |-> c, yield |-> FALSE]
  ELSE LET p == c.pos
           c1 == [c EXCEPT !.pos = p + 1]
       IN IF HasBarrier(p)
          THEN LET c2 == SetWatermark(c1, Sp(p))
               IN IF k + 1 = frames_per_poll_gc
                  THEN [it |-> c2, yield |-> TRUE]
                  ELSE ProcessAll(c2, k + 1)
          ELSE ProcessAll(c1, k)

----------------------------------------------------------------------------
\* StackWatermark

ShouldStartIteration == state.epoch # epoch_id

\* Mutant of IsFrameSafe: the comparison with the caller boundary is inverted.
IsFrameSafe_Inverted(p, blob) ==
  IF state.epoch # epoch_id THEN FALSE
  ELSE IF state.is_done THEN TRUE
  ELSE IF iterator # <<>>
       THEN Sp(IF blob THEN p + 1 ELSE p) > iterator[1].caller
  ELSE TRUE

\* Mutant of IsFrameSafe: a stale state is reported safe.
IsFrameSafe_StaleSafe(p, blob) ==
  IF state.epoch # epoch_id THEN TRUE
  ELSE IF state.is_done THEN TRUE
  ELSE IF iterator # <<>>
       THEN Sp(IF blob THEN p + 1 ELSE p) < iterator[1].caller
  ELSE TRUE

\* is_frame_safe on frame p of the stack; blob: the frame is a safepoint blob
\* frame, which is resolved to its sender, frame p + 1.
IsFrameSafe(p, blob) ==
  IF state.epoch # epoch_id THEN FALSE
  ELSE IF state.is_done THEN TRUE
  ELSE IF iterator # <<>>
       THEN Sp(IF blob THEN p + 1 ELSE p) < iterator[1].caller
  ELSE TRUE

\* Mutant of LastProcessed: no check of watermark().
LastProcessed_NoWatermarkCheck ==
  IF ShouldStartIteration THEN 0
  ELSE IF iterator = <<>> THEN 0
  ELSE iterator[1].caller

LastProcessed ==
  IF ShouldStartIteration THEN 0
  ELSE IF watermark = 0 THEN 0
  ELSE IF iterator = <<>> THEN 0
  ELSE iterator[1].caller

\* Mutant of Unfinished: update_watermark does not ask has_next().
Unfinished_NoHasNext == iterator # <<>>

\* Whether update_watermark takes its first branch.
Unfinished == iterator # <<>> /\ HasNext(iterator[1])

NoRes == [op |-> "none", out |-> "none", val |-> 0, stale |-> FALSE]

Res(op, out, val, stale) == [op |-> op, out |-> out, val |-> val, stale |-> stale]

\* Mutant of Bootstrap: no process_one call on the new iterator.
Bootstrap_None == NewIterator

\* Mutant of Bootstrap: two process_one calls.
Bootstrap_Two == ItProcessOne(ItProcessOne(NewIterator))

\* The three process_one calls of start_iteration_impl on a new iterator.
Bootstrap == ItProcessOne(ItProcessOne(ItProcessOne(NewIterator)))

\* Another thread is inside process_all, waiting to take the lock again.
Draining(u) == pc[u] = "pa_relock"

\* Mutant of StartIterationImpl: an iterator is built also when the thread has
\* no last Java frame.
StartIterationImpl_AlwaysNew(t) ==
  /\ iterator' = <<Bootstrap>>
  /\ processed' = 1..(Bootstrap.pos - 1)
  /\ born' = epoch_id
  /\ implRuns' = [implRuns EXCEPT ![epoch_id] = @ + 1]
  /\ \E reuse \in BOOLEAN :
       dang' = [u \in Threads |->
                  IF u # t /\ Draining(u)
                  THEN IF reuse THEN <<>>
                       ELSE IF dang[u] = <<>> THEN iterator ELSE dang[u]
                  ELSE dang[u]]

\* start_iteration_impl up to its call of update_watermark, by thread t, which
\* holds the lock.  delete _iterator frees the object a draining thread still
\* runs on; the new iterator is allocated either in the block just freed (the
\* draining thread then runs on the new object) or elsewhere (it then runs on
\* freed memory).
StartIterationImpl(t) ==
  /\ iterator' = IF HasLastJavaFrame THEN <<Bootstrap>> ELSE <<>>
  /\ processed' = IF HasLastJavaFrame THEN 1..(Bootstrap.pos - 1) ELSE {}
  /\ born' = epoch_id
  /\ implRuns' = [implRuns EXCEPT ![epoch_id] = @ + 1]
  /\ \E reuse \in BOOLEAN :
       dang' = [u \in Threads |->
                  IF u # t /\ Draining(u)
                  THEN IF reuse /\ HasLastJavaFrame THEN <<>>
                       ELSE IF dang[u] = <<>> THEN iterator ELSE dang[u]
                  ELSE dang[u]]

\* Mutant of UpdateWatermark_Watermark: the store of _watermark is not done
\* before the store of _state.
UpdateWatermark_Watermark_Late(t) ==
  /\ alive /\ pc[t] = "uw_wm" /\ lock = t
  /\ pc' = [pc EXCEPT ![t] = "uw_st"]
  /\ UNCHANGED <<epoch_id, state, watermark, iterator, lock, stack, ctx, ld,
                 dang, res, alive, processed, born, implRuns>>

\* update_watermark, first store.
UpdateWatermark_Watermark(t) ==
  /\ alive /\ pc[t] = "uw_wm" /\ lock = t
  /\ watermark' = IF Unfinished THEN iterator[1].callee ELSE 0
  /\ pc' = [pc EXCEPT ![t] = "uw_st"]
  /\ UNCHANGED <<epoch_id, state, iterator, lock, stack, ctx, ld, dang, res,
                 alive, processed, born, implRuns>>

\* Mutant of Published: both branches of update_watermark store is_done.
Published_AlwaysDone == Create(epoch_id, TRUE)

\* Mutant of Published: the epoch is cut to one bit when the word is stored.
Published_Truncated == Create(epoch_id % 2, ~Unfinished)

\* The state word update_watermark stores.
Published == Create(epoch_id, ~Unfinished)

\* update_watermark, second store, and what follows it at each call site up to
\* the release of the lock.
UpdateWatermark_State(t) ==
  /\ alive /\ pc[t] = "uw_st" /\ lock = t
  /\ state' = Published
  /\ IF ctx[t] = "finish_impl"
     THEN /\ pc' = [pc EXCEPT ![t] = "fi_drain"]
          /\ UNCHANGED <<lock, res, dang, ctx>>
     ELSE IF ctx[t] = "yield"
     THEN /\ pc' = [pc EXCEPT ![t] = "pa_relock"]
          /\ lock' = NoOwner
          /\ UNCHANGED <<res, dang, ctx>>
     ELSE /\ pc' = [pc EXCEPT ![t] = "ret"]
          /\ lock' = NoOwner
          /\ res' = [res EXCEPT ![t] =
                       Res(ctx[t], IF Published.is_done THEN "done" ELSE "active",
                           watermark, FALSE)]
          /\ dang' = [dang EXCEPT ![t] = <<>>]
          /\ ctx' = [ctx EXCEPT ![t] = "none"]
  /\ UNCHANGED <<epoch_id, watermark, iterator, stack, ld, alive, processed,
                 born, implRuns>>

\* start_iteration: the unlocked load of _state ...
StartIteration_Load(t) ==
  /\ alive /\ pc[t] = "idle"
  /\ ld' = [ld EXCEPT ![t] = state.epoch]
  /\ pc' = [pc EXCEPT ![t] = "si_cmp"]
  /\ UNCHANGED <<epoch_id, state, watermark, iterator, lock, stack, ctx, dang,
                 res, alive, processed, born, implRuns>>

\* ... and its comparison with epoch_id() (should_start_iteration_acquire).
StartIteration_Compare(t) ==
  /\ alive /\ pc[t] = "si_cmp"
  /\ IF ld[t] # epoch_id
     THEN /\ pc' = [pc EXCEPT ![t] = "si_lock"]
          /\ UNCHANGED res
     ELSE /\ pc' = [pc EXCEPT ![t] = "ret"]
          /\ res' = [res EXCEPT ![t] = Res("start_iteration", "fast", watermark, FALSE)]
  /\ ld' = [ld EXCEPT ![t] = 0]
  /\ UNCHANGED <<epoch_id, state, watermark, iterator, lock, stack, ctx, dang,
                 alive, processed, born, implRuns>>

\* Mutant of StartIteration_Start: no second check under the lock.
StartIteration_Start_NoRecheck(t) ==
  /\ alive /\ pc[t] = "si_lock" /\ lock = NoOwner
  /\ StartIterationImpl(t)
  /\ lock' = t
  /\ pc' = [pc EXCEPT ![t] = "uw_wm"]
  /\ ctx' = [ctx EXCEPT ![t] = "start_iteration"]
  /\ UNCHANGED <<epoch_id, state, watermark, stack, ld, res, alive>>

\* start_iteration under the lock, stale: start_iteration_impl.
StartIteration_Start(t) ==
  /\ alive /\ pc[t] = "si_lock" /\ lock = NoOwner
  /\ ShouldStartIteration
  /\ StartIterationImpl(t)
  /\ lock' = t
  /\ pc' = [pc EXCEPT ![t] = "uw_wm"]
  /\ ctx' = [ctx EXCEPT ![t] = "start_iteration"]
  /\ UNCHANGED <<epoch_id, state, watermark, stack, ld, res, alive>>

\* start_iteration under the lock, not stale any more: nothing to do.
StartIteration_Skip(t) ==
  /\ alive /\ pc[t] = "si_lock" /\ lock = NoOwner
  /\ ~ShouldStartIteration
  /\ pc' = [pc EXCEPT ![t] = "ret"]
  /\ res' = [res EXCEPT ![t] = Res("start_iteration", "skipped", watermark, FALSE)]
  /\ UNCHANGED <<epoch_id, state, watermark, iterator, lock, stack, ctx, ld,
                 dang, alive, processed, born, implRuns>>

\* Mutant of ProcessOne_Start: process_one starts an iteration also when the
\* state word is not stale.
ProcessOne_Start_Always(t) ==
  /\ alive /\ pc[t] = "idle" /\ lock = NoOwner
  /\ StartIterationImpl(t)
  /\ lock' = t
  /\ pc' = [pc EXCEPT ![t] = "uw_wm"]
  /\ ctx' = [ctx EXCEPT ![t] = "process_one_start"]
  /\ UNCHANGED <<epoch_id, state, watermark, stack, ld, res, alive>>

\* process_one, stale: start_iteration_impl.
ProcessOne_Start(t) ==
  /\ alive /\ pc[t] = "idle" /\ lock = NoOwner
  /\ ShouldStartIteration
  /\ StartIterationImpl(t)
  /\ lock' = t
  /\ pc' = [pc EXCEPT ![t] = "uw_wm"]
  /\ ctx' = [ctx EXCEPT ![t] = "process_one_start"]
  /\ UNCHANGED <<epoch_id, state, watermark, stack, ld, res, alive>>

\* process_one, not stale, with an iterator: one process_one of the iterator.
ProcessOne_Step(t) ==
  /\ alive /\ pc[t] = "idle" /\ lock = NoOwner
  /\ ~ShouldStartIteration
  /\ iterator # <<>>
  /\ iterator' = <<ItProcessOne(iterator[1])>>
  /\ processed' = processed \cup (iterator[1].pos .. (iterator'[1].pos - 1))
  /\ lock' = t
  /\ pc' = [pc EXCEPT ![t] = "uw_wm"]
  /\ ctx' = [ctx EXCEPT ![t] = "process_one_step"]
  /\ UNCHANGED <<epoch_id, state, watermark, stack, ld, dang, res, alive, born,
                 implRuns>>

\* process_one, not stale, no iterator.
ProcessOne_Nothing(t) ==
  /\ alive /\ pc[t] = "idle" /\ lock = NoOwner
  /\ ~ShouldStartIteration
  /\ iterator = <<>>
  /\ pc' = [pc EXCEPT ![t] = "ret"]
  /\ res' = [res EXCEPT ![t] = Res("process_one", "nothing", watermark, FALSE)]
  /\ UNCHANGED <<epoch_id, state, watermark, iterator, lock, stack, ctx, ld,
                 dang, alive, processed, born, implRuns>>

\* One stretch of process_all by thread t on the iterator object c, from the
\* loop head to the next yield or to the end of the loop.
Drain(t, c) ==
  LET r == ProcessAll(c, 0)
  IN /\ processed' = processed \cup (c.pos .. (r.it.pos - 1))
     /\ ctx' = [ctx EXCEPT ![t] = IF r.yield THEN "yield" ELSE "finish_end"]
     /\ pc' = [pc EXCEPT ![t] = "uw_wm"]

\* finish_iteration from `if (_iterator != NULL)' on.
FinishIteration_Body(t) ==
  IF iterator # <<>>
  THEN /\ Drain(t, iterator[1])
       /\ iterator' = <<ProcessAll(iterator[1], 0).it>>
  ELSE /\ pc' = [pc EXCEPT ![t] = "uw_wm"]
       /\ ctx' = [ctx EXCEPT ![t] = "finish_end"]
       /\ UNCHANGED <<iterator, processed>>

\* finish_iteration, stale: start_iteration_impl.
FinishIteration_Start(t) ==
  /\ alive /\ pc[t] = "idle" /\ lock = NoOwner
  /\ ShouldStartIteration
  /\ StartIterationImpl(t)
  /\ lock' = t
  /\ pc' = [pc EXCEPT ![t] = "uw_wm"]
  /\ ctx' = [ctx EXCEPT ![t] = "finish_impl"]
  /\ UNCHANGED <<epoch_id, state, watermark, stack, ld, res, alive>>

\* finish_iteration, not stale.
FinishIteration_Current(t) ==
  /\ alive /\ pc[t] = "idle" /\ lock = NoOwner
  /\ ~ShouldStartIteration
  /\ lock' = t
  /\ FinishIteration_Body(t)
  /\ UNCHANGED <<epoch_id, state, watermark, stack, ld, dang, res, alive, born,
                 implRuns>>

\* finish_iteration after its start_iteration_impl.
FinishIteration_ProcessAll(t) ==
  /\ alive /\ pc[t] = "fi_drain" /\ lock = t
  /\ FinishIteration_Body(t)
  /\ UNCHANGED <<epoch_id, state, watermark, lock, stack, ld, dang, res, alive,
                 born, implRuns>>

\* Mutant of ProcessAll_Resume: process_all goes on after a yield without
\* taking the lock again.
ProcessAll_Resume_NoRelock(t) ==
  /\ alive /\ pc[t] = "pa_relock"
  /\ dang[t] = <<>>
  /\ Drain(t, iterator[1])
  /\ iterator' = <<ProcessAll(iterator[1], 0).it>>
  /\ UNCHANGED <<epoch_id, state, watermark, lock, stack, ld, dang, res, alive,
                 born, implRuns>>

\* process_all takes the lock again after a yield; its iterator is alive.
ProcessAll_Resume(t) ==
  /\ alive /\ pc[t] = "pa_relock" /\ lock = NoOwner
  /\ dang[t] = <<>>
  /\ lock' = t
  /\ Drain(t, iterator[1])
  /\ iterator' = <<ProcessAll(iterator[1], 0).it>>
  /\ UNCHANGED <<epoch_id, state, watermark, stack, ld, dang, res, alive, born,
                 implRuns>>

\* process_all takes the lock again after a yield; its iterator was deleted
\* meanwhile and the freed memory still holds the old object.
ProcessAll_ResumeFreed(t) ==
  /\ alive /\ pc[t] = "pa_relock" /\ lock = NoOwner
  /\ dang[t] # <<>>
  /\ lock' = t
  /\ Drain(t, dang[t][1])
  /\ dang' = [dang EXCEPT ![t] = <<ProcessAll(dang[t][1], 0).it>>]
  /\ UNCHANGED <<epoch_id, state, watermark, iterator, stack, ld, res, alive,
                 born, implRuns>>

\* process_all takes the lock again after a yield; its iterator was deleted
\* meanwhile and reading the freed memory traps.
ProcessAll_Trap(t) ==
  /\ alive /\ pc[t] = "pa_relock" /\ lock = NoOwner
  /\ dang[t] # <<>>
  /\ lock' = t
  /\ alive' = FALSE
  /\ UNCHANGED <<epoch_id, state, watermark, iterator, stack, pc, ctx, ld, dang,
                 res, processed, born, implRuns>>

\* is_frame_safe(fr), fr a frame of the thread.  The result is kept with the
\* epoch_id() of the call.
IsFrameSafe_Call(t) ==
  /\ alive /\ pc[t] = "idle" /\ lock = NoOwner
  /\ \E p \in 1..stack.n, blob \in BOOLEAN :
       /\ blob => p < stack.n
       /\ res' = [res EXCEPT ![t] =
                    Res(IF blob THEN "is_frame_safe_blob" ELSE "is_frame_safe",
                        IF IsFrameSafe(p, blob) THEN "true" ELSE "false",
                        epoch_id, ShouldStartIteration)]
  /\ pc' = [pc EXCEPT ![t] = "ret"]
  /\ UNCHANGED <<epoch_id, state, watermark, iterator, lock, stack, ctx, ld,
                 dang, alive, processed, born, implRuns>>

\* last_processed()
LastProcessed_Call(t) ==
  /\ alive /\ pc[t] = "idle" /\ lock = NoOwner
  /\ res' = [res EXCEPT ![t] =
               Res("last_processed", "value", LastProcessed, ShouldStartIteration)]
  /\ pc' = [pc EXCEPT ![t] = "ret"]
  /\ UNCHANGED <<epoch_id, state, watermark, iterator, lock, stack, ctx, ld,
                 dang, alive, processed, born, implRuns>>

\* watermark()
Watermark_Call(t) ==
  /\ alive /\ pc[t] = "idle"
  /\ res' = [res EXCEPT ![t] = Res("watermark", "value", watermark, FALSE)]
  /\ pc' = [pc EXCEPT ![t] = "ret"]
  /\ UNCHANGED <<epoch_id, state, watermark, iterator, lock, stack, ctx, ld,
                 dang, alive, processed, born, implRuns>>

\* A lock-free reader: the load_acquire of _state ...
Reader_LoadState(t) ==
  /\ alive /\ pc[t] = "idle"
  /\ IF state.is_done
     THEN /\ pc' = [pc EXCEPT ![t] = "ret"]
          /\ res' = [res EXCEPT ![t] = Res("reader", "done", 0, FALSE)]
          /\ UNCHANGED ld
     ELSE /\ pc' = [pc EXCEPT ![t] = "rd_wm"]
          /\ ld' = [ld EXCEPT ![t] = state.epoch]
          /\ UNCHANGED res
  /\ UNCHANGED <<epoch_id, state, watermark, iterator, lock, stack, ctx, dang,
                 alive, processed, born, implRuns>>

\* ... and then the load_acquire of _watermark.
Reader_LoadWatermark(t) ==
  /\ alive /\ pc[t] = "rd_wm"
  /\ pc' = [pc EXCEPT ![t] = "ret"]
  /\ res' = [res EXCEPT ![t] = Res("reader", "active", watermark, FALSE)]
  /\ ld' = [ld EXCEPT ![t] = 0]
  /\ UNCHANGED <<epoch_id, state, watermark, iterator, lock, stack, ctx, dang,
                 alive, processed, born, implRuns>>

\* The caller takes the result and is free to call again.
Return(t) ==
  /\ alive /\ pc[t] = "ret"
  /\ pc' = [pc EXCEPT ![t] = "idle"]
  /\ res' = [res EXCEPT ![t] = NoRes]
  /\ UNCHANGED <<epoch_id, state, watermark, iterator, lock, stack, ctx, ld,
                 dang, alive, processed, born, implRuns>>

\* The collector starts a new round: epoch_id() changes.
Bump ==
  /\ alive /\ epoch_id < MaxEpoch
  /\ epoch_id' = epoch_id + 1
  /\ UNCHANGED <<state, watermark, iterator, lock, stack, pc, ctx, ld, dang,
                 res, alive, processed, born, implRuns>>

\* The StackWatermark constructor, for the current epoch.
Init ==
  /\ epoch_id = 0
  /\ state = Create(0, TRUE)
  /\ watermark = 0
  /\ iterator = <<>>
  /\ lock = NoOwner
  /\ stack \in Stacks
  /\ pc = [t \in Threads |-> "idle"]
  /\ ctx = [t \in Threads |-> "none"]
  /\ ld = [t \in Threads |-> 0]
  /\ dang = [t \in Threads |-> <<>>]
  /\ res = [t \in Threads |-> NoRes]
  /\ alive = TRUE
  /\ processed = {}
  /\ born = 0
  /\ implRuns = [e \in 0..MaxEpoch |-> 0]

Next ==
  \/ Bump
  \/ \E t \in Threads :
       \/ StartIteration_Load(t)
       \/ StartIteration_Compare(t)
       \/ StartIteration_Start(t)
       \/ StartIteration_Skip(t)
       \/ ProcessOne_Start(t)
       \/ ProcessOne_Step(t)
       \/ ProcessOne_Nothing(t)
       \/ FinishIteration_Start(t)
       \/ FinishIteration_Current(t)
       \/ FinishIteration_ProcessAll(t)
       \/ ProcessAll_Resume(t)
       \/ ProcessAll_ResumeFreed(t)
       \/ ProcessAll_Trap(t)
       \/ UpdateWatermark_Watermark(t)
       \/ UpdateWatermark_State(t)
       \/ IsFrameSafe_Call(t)
       \/ LastProcessed_Call(t)
       \/ Watermark_Call(t)
       \/ Return(t)

Spec == Init /\ [][Next]_vars

\* The same program when the collector advances the epoch only while no call of
\* the controller is in progress.  No iterator is then deleted under a draining
\* thread, so the two steps that read freed memory are left out.
BumpQuiet ==
  /\ \A t \in Threads : pc[t] = "idle"
  /\ Bump

NextQuiet ==
  \/ BumpQuiet
  \/ \E t \in Threads :
       \/ StartIteration_Load(t)
       \/ StartIteration_Compare(t)
       \/ StartIteration_Start(t)
       \/ StartIteration_Skip(t)
       \/ ProcessOne_Start(t)
       \/ ProcessOne_Step(t)
       \/ ProcessOne_Nothing(t)
       \/ FinishIteration_Start(t)
       \/ FinishIteration_Current(t)
       \/ FinishIteration_ProcessAll(t)
       \/ ProcessAll_Resume(t)
       \/ UpdateWatermark_Watermark(t)
       \/ UpdateWatermark_State(t)
       \/ IsFrameSafe_Call(t)
       \/ LastProcessed_Call(t)
       \/ Watermark_Call(t)
       \/ Return(t)

SpecQuiet == Init /\ [][NextQuiet]_vars

\* The same program with a thread that reads the two words without the lock.
NextReader ==
  \/ Next
  \/ \E t \in Threads : Reader_LoadState(t) \/ Reader_LoadWatermark(t)

SpecReader == Init /\ [][NextReader]_vars

----------------------------------------------------------------------------
\* Shorthands of the properties below.

InStore == \E t \in Threads : pc[t] = "uw_st"

Returned(t, op) == pc[t] = "ret" /\ res[t].op = op

StartSites == {"start_iteration", "process_one_start", "finish_impl"}

\* Unvisited frames of the cursor.
Remaining == IF iterator = <<>> THEN 0 ELSE stack.n + 1 - iterator[1].pos

\* The frame after the k-th barrier frame from frame p on, or after the last
\* frame when fewer than k barrier frames are left.
RECURSIVE AfterBarriers(_, _)
AfterBarriers(p, k) ==
  IF k = 0 \/ p > stack.n THEN p
  ELSE AfterBarriers(p + 1, IF HasBarrier(p) THEN k - 1 ELSE k)

Min(a, b) == IF a < b THEN a ELSE b

----------------------------------------------------------------------------
\* C1 (as stated): at every instant, watermark() is 0 if and only if the state
\* word reports done for the current global epoch.
C1_Original == (watermark = 0) <=> (state.is_done /\ state.epoch = epoch_id)

\* C1 (amended): whenever no update_watermark is between its two stores,
\* watermark() is 0 if and only if the done flag of the state word is set, for
\* the epoch the state word records, which may be older than the global epoch.
C1_WatermarkZeroIffDone == ~InStore => ((watermark = 0) <=> state.is_done)

C1_Witness ==
  /\ ~InStore /\ lock = NoOwner
  /\ watermark # 0 /\ ~state.is_done /\ state.epoch = epoch_id

\* C2: when finish_iteration returns, the state word is done and the watermark
\* is 0.
C2_FinishReturnsDone ==
  \A t \in Threads :
    Returned(t, "finish_end") => res[t].out = "done" /\ res[t].val = 0

\* C3: when the state word takes a new epoch while a cursor exists, that cursor
\* was built for that epoch: a cursor created for an older epoch is never
\* published under the new one.
C3_NewEpochOnlyFromFreshIteration ==
  [][(state'.epoch # state.epoch /\ iterator' # <<>>) => state'.epoch = born']_vars

\* C4: with the epoch advancing only between calls, start_iteration_impl runs at
\* most once per epoch, and a start_iteration call returns with the state word
\* current after exactly one run of start_iteration_impl for that epoch.
C4_ExactlyOneStart ==
  /\ \A e \in 0..MaxEpoch : implRuns[e] <= 1
  /\ \A t \in Threads :
       (pc[t] = "ret" /\ res[t].op = "start_iteration")
         => /\ state.epoch = epoch_id
            /\ epoch_id > 0 => implRuns[epoch_id] = 1

C4_Witness ==
  \E t, u \in Threads :
    /\ Returned(t, "start_iteration") /\ res[t].out \in {"done", "active"}
    /\ Returned(u, "start_iteration") /\ res[u].out = "skipped"
    /\ implRuns[epoch_id] = 1

\* C5: while the global epoch does not change, no step of any operation turns
\* is_frame_safe(a) from true to false, for any frame a.
C5_IsFrameSafeMonotonic ==
  [][epoch_id' = epoch_id =>
       \A p \in 1..stack.n, blob \in BOOLEAN :
         ((blob => p < stack.n) /\ IsFrameSafe(p, blob)) => IsFrameSafe(p, blob)']_vars

C5_Witness ==
  \E t, u \in Threads :
    /\ Returned(t, "is_frame_safe") /\ res[t].out = "true"
    /\ Returned(u, "process_one_step") /\ res[u].out = "active"
    /\ res[t].val = epoch_id /\ state.epoch = epoch_id /\ ~state.is_done
    /\ \E p \in 1..stack.n : IsFrameSafe(p, FALSE) /\ ~IsFrameSafe(stack.n, FALSE)

\* C6 (as stated): is_frame_safe returns true whenever the cached epoch is stale.
C6_Original ==
  \A t \in Threads :
    (pc[t] = "ret" /\ res[t].op \in {"is_frame_safe", "is_frame_safe_blob"}
       /\ res[t].stale) => res[t].out = "true"

\* C6 (amended): is_frame_safe returns false whenever the cached epoch is stale,
\* for every frame, whatever the done flag and the cursor.
C6_StaleIsNotSafe ==
  \A t \in Threads :
    (pc[t] = "ret" /\ res[t].op \in {"is_frame_safe", "is_frame_safe_blob"}
       /\ res[t].stale) => res[t].out = "false"

C6_Witness ==
  \E t \in Threads :
    /\ Returned(t, "is_frame_safe") /\ res[t].stale /\ res[t].out = "false"
    /\ res[t].val = epoch_id /\ state.epoch # epoch_id
    /\ iterator # <<>> /\ iterator[1].caller > Sp(1)

\* C7: a process_one call on a current controller whose cursor has unvisited
\* frames leaves strictly fewer of them, and one on a finished cursor leaves the
\* state word done.
C7_ProcessOneProgress ==
  [][\A t \in Threads :
       /\ (pc[t] = "idle" /\ pc'[t] = "uw_wm" /\ ctx'[t] = "process_one_step")
            => /\ Unfinished => Remaining' < Remaining
               /\ ~Unfinished => ~Unfinished'
       /\ (pc[t] = "uw_st" /\ ctx[t] = "process_one_step" /\ state.is_done)
            => state'.is_done]_vars

C7_Witness ==
  \E t \in Threads :
    /\ Returned(t, "process_one_step") /\ res[t].out = "done"
    /\ stack.n > 3 /\ processed = 1..stack.n /\ implRuns[epoch_id] = 1

\* C8: the epoch in the state word never decreases.
C8_EpochNeverDecreases == [][state'.epoch >= state.epoch]_vars

C8_Witness == state.epoch = 2 /\ \E t \in Threads : pc[t] = "ret"

C11_EmptyStackDoneAtOnce ==
  [][stack.n = 0 =>
       /\ iterator' = <<>> /\ watermark' = 0 /\ state'.is_done
       /\ \A t \in Threads :
            (pc[t] = "uw_st" /\ pc'[t] = "ret")
              => /\ res'[t].out = "done" /\ res'[t].val = 0
                 /\ state' = Create(epoch_id', TRUE)]_vars

C11_Witness ==
  \E t, u \in Threads :
    /\ stack.n = 0 /\ iterator = <<>> /\ epoch_id = 2
    /\ Returned(t, "process_one_start") /\ Returned(u, "finish_end")
    /\ state = Create(2, TRUE) /\ implRuns[1] = 1 /\ implRuns[2] = 1

\* C12: last_processed() returns 0 when the state word is stale, when the
\* watermark is 0 or when there is no cursor; in every other state it returns
\* the caller boundary of the cursor, which is then not 0 and not less than the
\* watermark.
C12_LastProcessed ==
  [][\A t \in Threads :
       (pc[t] = "idle" /\ pc'[t] = "ret" /\ res'[t].op = "last_processed")
         => LET v == res'[t].val
            IN /\ state.epoch # epoch_id => v = 0
               /\ watermark = 0 => v = 0
               /\ iterator = <<>> => v = 0
               /\ (state.epoch = epoch_id /\ watermark # 0 /\ iterator # <<>>)
                    => v = iterator[1].caller /\ v # 0 /\ v >= watermark]_vars

C12_Witness ==
  \E t \in Threads :
    /\ Returned(t, "last_processed") /\ ~res[t].stale
    /\ iterator # <<>> /\ res[t].val = iterator[1].caller
    /\ res[t].val > watermark /\ watermark # 0 /\ state.epoch = epoch_id

\* The iterator object the process_all of thread t runs on.
DrainCursor(t) == IF dang[t] # <<>> THEN dang[t][1] ELSE iterator[1]

BarriersIn(a, b) == Cardinality({q \in a..b : HasBarrier(q)})

\* A stretch of process_all by thread t ends in a yield exactly when it has
\* processed its 5th barrier frame, and the lock is released right after the
\* update_watermark of the yield and nowhere else before the call returns.
YieldsAtFifth(t) ==
  /\ (pc[t] # "uw_wm" /\ pc'[t] = "uw_wm" /\ ctx'[t] \in {"yield", "finish_end"}
        /\ iterator # <<>>)
       => LET a == IF pc[t] = "pa_relock" THEN DrainCursor(t).pos
                   ELSE iterator[1].pos
              b == DrainCursor(t)'.pos
          IN IF ctx'[t] = "yield"
             THEN BarriersIn(a, b - 1) = frames_per_poll_gc /\ HasBarrier(b - 1)
             ELSE BarriersIn(a, b - 1) < frames_per_poll_gc /\ b = stack.n + 1
  /\ (lock = t /\ lock' # t /\ pc'[t] # "ret")
       => pc[t] = "uw_st" /\ ctx[t] = "yield" /\ pc'[t] = "pa_relock"

\* finish_iteration returns with the cursor of the controller, if there is one,
\* without unvisited frames and every frame of the stack processed in its
\* iteration.
ReturnsDrained(t) ==
  (pc[t] = "uw_st" /\ ctx[t] = "finish_end" /\ pc'[t] = "ret")
    => ~Unfinished' /\ (iterator' # <<>> => processed' = 1..stack.n)

\* C13: during the drain of finish_iteration the lock is released after every
\* 5th barrier frame, right after update_watermark, and at no other point; and
\* finish_iteration returns only when every remaining frame of the cursor has
\* been processed, also when other threads take the lock during the yields.
C13_DrainYieldsAndCompletes ==
  [][\A t \in Threads : YieldsAtFifth(t) /\ ReturnsDrained(t)]_vars

\* C14: in every state, also between the stores of update_watermark and during
\* the yields of process_all: when the watermark is not 0 and the state word is
\* not stale, every frame with a stack address below the watermark has been
\* passed to process() since the cursor of the controller was built.
C14_AboveWatermarkProcessed ==
  (watermark # 0 /\ state.epoch = epoch_id)
    => \A p \in 1..stack.n : Sp(p) < watermark => p \in processed

C14_Witness ==
  \E t \in Threads :
    /\ pc[t] = "pa_relock" /\ lock = NoOwner /\ dang[t] = <<>>
    /\ state.epoch = epoch_id /\ watermark > Sp(3)
    /\ processed # 1..stack.n
    /\ \A p \in 1..stack.n : Sp(p) < watermark => p \in processed

\* The watermark that belongs to the state word update_watermark stores.
PairedWatermark == IF Unfinished THEN iterator[1].callee ELSE 0

AboveProcessed(w) == \A p \in 1..stack.n : Sp(p) < w => p \in processed

\* C15: the watermark word changes only in the first store of an
\* update_watermark and the state word only in its second; when the state word
\* is stored, the watermark word already holds the watermark that belongs to
\* it, and for a state word that is not done the frames above that watermark
\* have been processed.  A reader without the lock that has read a state word
\* that is not done and then reads the watermark word, with that state word
\* still in place and no operation holding the lock, reads the watermark that
\* belongs to it.
C15_WatermarkBeforeState ==
  [][/\ watermark' # watermark
          => \E t \in Threads : pc[t] = "uw_wm" /\ pc'[t] = "uw_st" /\ lock = t
     /\ state' # state
          => \E t \in Threads : pc[t] = "uw_st" /\ pc'[t] # "uw_st" /\ lock = t
     /\ \A t \in Threads :
          (pc[t] = "uw_st" /\ pc'[t] # "uw_st")
            => /\ watermark = PairedWatermark /\ watermark' = watermark
               /\ state' = Create(epoch_id, ~Unfinished)
               /\ ~state'.is_done => AboveProcessed(watermark)
     /\ \A t \in Threads :
          (pc[t] = "rd_wm" /\ pc'[t] = "ret" /\ lock = NoOwner
             /\ state = Create(ld[t], FALSE))
            => /\ res'[t].val = PairedWatermark
               /\ AboveProcessed(res'[t].val)]_vars

C15_Witness ==
  \E t, u \in Threads :
    /\ Returned(t, "reader") /\ res[t].out = "active" /\ res[t].val > Sp(2)
    /\ pc[u] = "uw_st" /\ ctx[u] = "process_one_step"
    /\ watermark > res[t].val /\ ~state.is_done

\* C16: in every state in which no thread holds the lock, also at the yields
\* of process_all, the done flag of the state word is false if and only if
\* there is a cursor with unvisited frames.
C16_NotDoneIffUnfinished ==
  lock = NoOwner
    => (~state.is_done <=> (iterator # <<>> /\ iterator[1].pos <= stack.n))

C16_Witness ==
  \E t \in Threads :
    /\ pc[t] = "pa_relock" /\ lock = NoOwner
    /\ \A u \in Threads \ {t} : pc[u] = "idle"
    /\ state = Create(epoch_id, FALSE)
    /\ iterator # <<>> /\ iterator[1].pos = stack.n

\* The positions of a thread between taking and releasing the lock.
Locked == {"uw_wm", "uw_st", "fi_drain"}

\* C17: every step that builds, deletes or advances a cursor or changes its
\* boundaries, and every store of update_watermark, is a step of a thread that
\* holds the lock in it; and at most one thread is between taking and releasing
\* the lock, also while a thread that drains has released it at a yield.
C17_CursorUnderLock ==
  [][/\ (iterator' # iterator \/ watermark' # watermark \/ state' # state
          \/ \E t \in Threads : dang'[t] # dang[t] /\ dang'[t] # <<>>)
          => \E t \in Threads :
               /\ pc'[t] # pc[t]
               /\ lock = t \/ (lock = NoOwner /\ lock' = t)
     /\ \A t \in Threads : pc'[t] \in Locked => lock' = t
     /\ \A t, u \in Threads :
          (pc'[t] \in Locked /\ pc'[u] \in Locked) => t = u]_vars

C17_Witness ==
  \E t, u \in Threads :
    /\ pc[t] = "pa_relock" /\ dang[t] = <<>>
    /\ pc[u] = "uw_st" /\ ctx[u] = "process_one_step" /\ lock = u
    /\ state.epoch = epoch_id

\* The boundary pair after one more barrier frame at address sp, as the claim
\* words it: callee first, caller second, then the shift.
Fold(b, sp) ==
  IF b.callee = 0 THEN [b EXCEPT !.callee = sp]
  ELSE IF b.caller = 0 THEN [b EXCEPT !.caller = sp]
  ELSE [callee |-> b.caller, caller |-> sp]

\* The pair b after the frames p..q, every barrier frame among them folded in.
RECURSIVE FoldAll(_, _, _)
FoldAll(b, p, q) ==
  IF p > q THEN b
  ELSE FoldAll(IF HasBarrier(p) THEN Fold(b, Sp(p)) ELSE b, p + 1, q)

\* The same, but the last frame of the stack is not folded in.
RECURSIVE FoldInner(_, _, _)
FoldInner(b, p, q) ==
  IF p > q THEN b
  ELSE FoldInner(IF HasBarrier(p) /\ p < stack.n THEN Fold(b, Sp(p)) ELSE b,
                 p + 1, q)

Pair(c) == [callee |-> c.callee, caller |-> c.caller]

\* The cursors a step has walked: <<before, after>>, for the cursor of the
\* controller (a new one starts as NewIterator) and for deleted cursors that
\* a draining thread still runs on.
Walked ==
  (IF iterator' # <<>> /\ iterator' # iterator
   THEN {<<IF \E t \in Threads : pc[t] # "uw_wm" /\ pc'[t] = "uw_wm"
                                   /\ ctx'[t] \in StartSites
           THEN NewIterator ELSE iterator[1], iterator'[1]>>}
   ELSE {})
  \cup {<<dang[t][1], dang'[t][1]>> :
          t \in {u \in Threads : dang[u] # <<>> /\ dang'[u] # <<>>
                                  /\ pc'[u] # pc[u]}}

\* C18 (as stated): the boundary pair of a cursor changes by exactly the
\* barrier frames it processes, every one of them folded in, and a frame
\* without a barrier leaves it unchanged.
C18_Original ==
  [][\A w \in Walked :
       Pair(w[2]) = FoldAll(Pair(w[1]), w[1].pos, w[2].pos - 1)]_vars

\* C18 (amended): the boundary pair of a cursor changes by exactly the barrier
\* frames it processes that are not the last frame of the stack: set_watermark
\* does nothing once the cursor has no unvisited frame.  A frame without a
\* barrier leaves the pair unchanged.
C18_FoldWhileUnvisited ==
  [][\A w \in Walked :
       Pair(w[2]) = FoldInner(Pair(w[1]), w[1].pos, w[2].pos - 1)]_vars

C18_Witness ==
  \E t \in Threads :
    /\ pc[t] = "uw_wm" /\ ctx[t] = "process_one_step"
    /\ iterator[1].pos = stack.n + 1 /\ HasBarrier(stack.n)
    /\ iterator[1].caller # 0 /\ iterator[1].caller < Sp(stack.n)
    /\ iterator[1].callee < iterator[1].caller /\ stack.n > MaxSmall

\* C19: whenever a thread enters update_watermark with a cursor that has
\* unvisited frames, the callee boundary of the cursor is not 0; and a state
\* word that is not done is never stored with a watermark of 0.
C19_CalleeSetWhenUnfinished ==
  [][\A t \in Threads :
       /\ (pc'[t] = "uw_wm" /\ iterator' # <<>> /\ iterator'[1].pos <= stack.n)
            => iterator'[1].callee # 0
       /\ (pc[t] = "uw_st" /\ pc'[t] # "uw_st" /\ ~state'.is_done)
            => watermark' # 0]_vars

C19_Witness ==
  \E t \in Threads :
    /\ pc[t] = "uw_wm" /\ ctx[t] \in StartSites
    /\ iterator # <<>> /\ iterator[1].pos = 7 /\ stack.n > 7
    /\ iterator[1].callee = Sp(4) /\ iterator[1].caller = Sp(6)

\* C20: while a finish_iteration call is at a yield of process_all, no other
\* thread runs start_iteration_impl, which deletes the cursor the call drains;
\* the call never has a deleted cursor to go on with, and its read of the
\* cursor never traps.
C20_DrainedCursorStaysAlive ==
  [][\A t \in Threads :
       pc[t] = "pa_relock"
         => implRuns' = implRuns /\ dang'[t] = <<>> /\ alive']_vars

====
